---- MODULE Spec2Model ----
(***************************************************************************)
(* Model of the play-by-play polling loop of the MLB game simulator:       *)
(* MLBGameSimulator.simulate_game / update_runners (test.py), together     *)
(* with get_game_data, update_stats, print_stats and main, which test.py   *)
(* takes over unchanged from MLBGameStat (live_games.py).                  *)
(***************************************************************************)
EXTENDS Integers, Sequences, FiniteSets, TLC

VARIABLES
    pc,               \* control position of main / simulate_game
    error,            \* the exception that ended the process, "none" if none
    exit_kind,        \* how the last simulate_game call returned
    feed,             \* the upstream play list, as published so far
    current_plays,    \* local current_plays of simulate_game (last snapshot)
    game_status,      \* abstractGameState of the last snapshot
    pending,          \* 0-based positions the for loop has still to visit
    last_play_id,     \* self.last_play_id, the Poll Cursor
    current_runners,  \* self.current_runners
    batter_stats,     \* self.batter_stats
    pitcher_stats,    \* self.pitcher_stats
    printed,          \* what main's print_stats showed last
    final_emitted,    \* the "Game over! Final score" lines were printed
    tick_cursor,      \* history: last_play_id when the current tick fetched
    prev_len,         \* history: play-list length of the previous tick
    trace,            \* history: <<operation, position>> dispatched this tick
    arg_play,         \* argument of a direct call of update_runners
    prior_runners,    \* history: self.current_runners before that call
    processed,        \* history: the plays update_stats was applied to
    commentary,       \* what a direct call of generate_commentary returned
    diamond,          \* what a direct call of draw_diamond returned
    attempts,         \* the requests the box-score get_game_data has made
    game_data         \* what the box-score get_game_data returned

vars == <<pc, error, exit_kind, feed, current_plays, game_status, pending,
          last_play_id, current_runners, batter_stats, pitcher_stats, printed,
          final_emitted, tick_cursor, prev_len, trace, arg_play,
          prior_runners, processed,
                   commentary, diamond, attempts, game_data>>

-----------------------------------------------------------------------------
(* Bounds of the model *)

\* longest play list the upstream feed publishes
MaxPlays == 2

\* longest runner-movement list of a play handed to update_runners directly
MaxRunners == 2

\* most plays handed to update_stats in a row when it is called directly
MaxStatPlays == 3

\* most earned runs and most at-bats of a record handed to print_stats
\* when it is called directly
MaxEarned == 2
MaxAtBats == 2

-----------------------------------------------------------------------------
(* Values *)

\* Python None (an empty base)
None == 0

\* a dictionary key that is absent from the payload
NoKey == "<absent>"
NoId == -1

Bases == {"1B", "2B", "3B"}

Batters == {1, 2}
Pitchers == {3, 4}
OtherRunner == 5

HitTypes == {"single", "double", "triple", "homerun"}

\* the keys of commentary_flavors
FlavorTypes == {"strikeout", "walk", "single", "double", "triple", "homerun",
                "groundout", "flyout", "double_play", "wild_pitch",
                "passed_ball", "steal", "pitching_change"}

\* the event types the model feeds in; field_error is in no table of the code
EventTypes == {"single", "double", "triple", "homerun", "walk", "strikeout",
               "groundout", "field_error"}

EmptyBases == [b \in Bases |-> None]

\* one entry of play['runners']: movement.end and details.runner.id
Entry(e, i) == [end |-> e, id |-> i]

\* a play of the feed; hasRunners / hasRbi / hasCount say whether the key
\* 'runners' / result.rbi / 'count' is present
Play(ev, b, p, hr, rs, hrbi, rbi, hc) ==
    [eventType |-> ev, batter |-> b, pitcher |-> p, hasRunners |-> hr,
     runners |-> rs, hasRbi |-> hrbi, rbi |-> rbi, hasCount |-> hc]

-----------------------------------------------------------------------------
(* update_runners *)

\* self.current_runners = {'1B': None, '2B': None, '3B': None}
ClearRunners_keep(cr) == cr

ClearRunners(cr) == EmptyBases

\* the loop over play['runners']; a missing key raises KeyError and leaves
\* the placements made so far
RECURSIVE PlaceRunners(_, _)
PlaceRunners(st, es) ==
    IF es = <<>> \/ st.raised THEN st
    ELSE LET e == Head(es) IN
         IF e.end = NoKey THEN [st EXCEPT !.raised = TRUE]
         ELSE IF e.end \in Bases
              THEN IF e.id = NoId THEN [st EXCEPT !.raised = TRUE]
                   ELSE PlaceRunners([st EXCEPT !.runners[e.end] = e.id],
                                     Tail(es))
              ELSE PlaceRunners(st, Tail(es))

\* any(self.current_runners.values())
AnyRunner(cr) == \E b \in Bases : cr[b] # None

\* the batter becoming a runner
BatterAdvance_first(cr, ev, batter_id) ==
    IF ev \in {"single", "double", "triple", "homerun", "walk"}
    THEN [cr EXCEPT !["1B"] = batter_id]
    ELSE cr

BatterAdvance_always(cr, ev, batter_id) == [cr EXCEPT !["1B"] = batter_id]

BatterAdvance(cr, ev, batter_id) ==
    IF ev \in {"single", "double", "triple", "homerun", "walk"}
    THEN CASE ev = "single" -> [cr EXCEPT !["1B"] = batter_id]
           [] ev = "double" -> [cr EXCEPT !["2B"] = batter_id]
           [] ev = "triple" -> [cr EXCEPT !["3B"] = batter_id]
           [] ev = "homerun" -> cr
           [] ev = "walk" /\ ~AnyRunner(cr) -> [cr EXCEPT !["1B"] = batter_id]
           [] OTHER -> cr
    ELSE cr

\* the whole method: the tracker state it leaves and whether it raised
update_runners(cr, play) ==
    LET cleared == [runners |-> ClearRunners(cr), raised |-> FALSE]
        placed == IF play.hasRunners
                  THEN PlaceRunners(cleared, play.runners)
                  ELSE cleared
    IN IF placed.raised THEN placed
       ELSE [placed EXCEPT
               !.runners = BatterAdvance(placed.runners, play.eventType,
                                         play.batter)]

-----------------------------------------------------------------------------
(* update_stats *)

NewBatter(id) == [name |-> id, ab |-> 0, h |-> 0, hr |-> 0, rbi |-> 0]
NewPitcher_oneinning(id) ==
    [name |-> id, ip |-> 1, h |-> 0, er |-> 0, so |-> 0]

NewPitcher(id) == [name |-> id, ip |-> 0, h |-> 0, er |-> 0, so |-> 0]

Put_alone(d, k, v) == [x \in {k} |-> v]

\* d[k] = v for a dictionary that may lack k
Put(d, k, v) == [x \in (DOMAIN d) \cup {k} |-> IF x = k THEN v ELSE d[x]]

EmptyDict == [x \in {} |-> 0]

\* event_type in ['single', 'double', 'triple', 'homerun'] (batter side)
BatterHit_nohr(ev) == ev \in {"single", "double", "triple"}

BatterHit_withK(ev) == ev \in HitTypes \cup {"strikeout"}

BatterHit(ev) == ev \in HitTypes

\* elif event_type == 'strikeout'
Strikeout_anyout(ev) == ev \in {"strikeout", "groundout"}

Strikeout(ev) == ev = "strikeout"

\* play['result']['rbi'] if that key is present
EarnedRuns_perhit(play) == 1

EarnedRuns(play) == IF play.hasRbi THEN play.rbi ELSE 0

update_stats(bs, ps, play, batter_id, pitcher_id) ==
    LET ev == play.eventType
        bs0 == IF batter_id \in DOMAIN bs THEN bs
               ELSE Put(bs, batter_id, NewBatter(batter_id))
        ps0 == IF pitcher_id \in DOMAIN ps THEN ps
               ELSE Put(ps, pitcher_id, NewPitcher(pitcher_id))
        b == bs0[batter_id]
        p == ps0[pitcher_id]
        bs1 == IF BatterHit(ev)
               THEN Put(bs0, batter_id,
                        [b EXCEPT !.h = @ + 1,
                                  !.hr = IF ev = "homerun" THEN @ + 1 ELSE @,
                                  !.ab = @ + 1])
               ELSE bs0
        ps1 == IF ev \in HitTypes
               THEN Put(ps0, pitcher_id,
                        [p EXCEPT !.h = @ + 1,
                                  !.er = @ + EarnedRuns(play)])
               ELSE IF Strikeout(ev)
                    THEN Put(ps0, pitcher_id, [p EXCEPT !.so = @ + 1])
                    ELSE ps0
    IN [batter_stats |-> bs1, pitcher_stats |-> ps1]

\* the batter maps update_stats can leave behind when a get_player_name of
\* its lazy initialisation raises: the batter's lookup fails before
\* anything is stored, the pitcher's after the batter's record (if it was
\* missing) is stored
LookupRaiseOutcomes(bs, ps, batter_id, pitcher_id) ==
    {d \in {bs} : batter_id \notin DOMAIN bs}
      \cup {IF batter_id \in DOMAIN bs THEN bs
             ELSE Put(bs, batter_id, NewBatter(batter_id)) :
             x \in {y \in {pitcher_id} : y \notin DOMAIN ps}}

-----------------------------------------------------------------------------
(* The feed *)

Statuses == {"Live", "Final"}

\* the plays the upstream feed can publish
FeedPlays ==
    { Play("single", 1, 3, TRUE, <<Entry("1B", 1)>>, TRUE, 0, TRUE),
      Play("double", 1, 3, TRUE, <<Entry("1B", 1)>>, TRUE, 1, FALSE),
      Play("homerun", 2, 4, TRUE, <<Entry("1B", 5)>>, TRUE, 2, TRUE),
      Play("walk", 2, 3, FALSE, <<>>, FALSE, 0, TRUE),
      Play("strikeout", 2, 4, FALSE, <<>>, FALSE, 0, TRUE),
      Play("field_error", 1, 4, TRUE, <<Entry("3B", 5)>>, FALSE, 0, FALSE),
      Play("groundout", 2, 3, TRUE, <<Entry(NoKey, 5)>>, FALSE, 0, FALSE) }

SeqsUpTo(S, n) == UNION {[1..k -> S] : k \in 0..n}

IsPrefix(s, t) == Len(s) <= Len(t) /\ SubSeq(t, 1, Len(s)) = s

\* what the upstream list can have grown to by the time of a request
Extensions(f) == {s \in SeqsUpTo(FeedPlays, MaxPlays) : IsPrefix(f, s)}

-----------------------------------------------------------------------------
(* simulate_game *)

\* len(current_plays) > self.last_play_id
HasNewPlays_differs(plays, cursor) == Len(plays) # cursor

HasNewPlays(plays, cursor) == Len(plays) > cursor

\* the 0-based positions of current_plays[self.last_play_id:]
NewPlays_all(plays, cursor) == [i \in 1..Len(plays) |-> i - 1]

NewPlays(plays, cursor) ==
    IF Len(plays) > cursor
    THEN [i \in 1..(Len(plays) - cursor) |-> cursor + i - 1]
    ELSE <<>>

\* the play at a 0-based position
PlayAt(plays, pos) == plays[pos + 1]

\* the positions at which simulate_game is inside its try block
TryPcs == {"fetch", "update_runners", "show_play", "update_stats",
           "play_delay", "advance_cursor", "check_status", "sleep"}

NothingPrinted == [shown |-> FALSE, batters |-> EmptyDict,
                   pitchers |-> EmptyDict, avgs |-> EmptyDict,
                   eras |-> EmptyDict]

DefaultPlay == Play("groundout", 1, 3, FALSE, <<>>, FALSE, 0, FALSE)

\* no commentary generated yet, no diamond drawn yet
NoCommentary ==
    [raised |-> FALSE, flavor |-> 0, description |-> "", moves |-> <<>>,
     hasCount |-> FALSE, balls |-> 0, strikes |-> 0, outs |-> 0]

NoDiamond ==
    [markers |-> [b \in Bases |-> FALSE], runner_info |-> <<>>]

\* the box-score get_game_data has returned nothing (yet), or None
NoGameData == "None"

Init ==
    /\ pc = "select"
    /\ error = "none"
    /\ exit_kind = "none"
    /\ feed = <<>>
    /\ current_plays = <<>>
    /\ game_status = "Live"
    /\ pending = <<>>
    /\ last_play_id = 0
    /\ current_runners = EmptyBases
    /\ batter_stats = EmptyDict
    /\ pitcher_stats = EmptyDict
    /\ printed = NothingPrinted
    /\ final_emitted = FALSE
    /\ tick_cursor = -1
    /\ prev_len = -1
    /\ trace = <<>>
    /\ arg_play = DefaultPlay
    /\ prior_runners = EmptyBases
    /\ processed = <<>>
    /\ commentary = NoCommentary
    /\ diamond = NoDiamond
    /\ attempts = <<>>
    /\ game_data = NoGameData

\* main: a game is selected and simulate_game is entered
SelectGame ==
    /\ pc = "select"
    /\ pc' = "fetch"
    /\ exit_kind' = "none"
    /\ feed' = <<>>
    /\ current_plays' = <<>>
    /\ game_status' = "Live"
    /\ pending' = <<>>
    /\ printed' = NothingPrinted
    /\ final_emitted' = FALSE
    /\ tick_cursor' = -1
    /\ prev_len' = -1
    /\ trace' = <<>>
    /\ UNCHANGED <<error, last_play_id, current_runners, batter_stats,
                   pitcher_stats, arg_play, prior_runners, processed,
                   commentary, diamond, attempts, game_data>>

\* main: no game available, or the operator answers Q
Quit ==
    /\ pc = "select"
    /\ pc' = "exit"
    /\ UNCHANGED <<error, exit_kind, feed, current_plays, game_status,
                   pending, last_play_id, current_runners, batter_stats,
                   pitcher_stats, printed, final_emitted, tick_cursor,
                   prev_len, trace, arg_play, prior_runners, processed,
                   commentary, diamond, attempts, game_data>>

\* get_live_games: requests.get or response.json() raises (transport
\* error); neither get_live_games nor main has a handler
GetLiveGamesFails ==
    /\ pc = "select"
    /\ pc' = "crashed"
    /\ error' = "schedule"
    /\ UNCHANGED <<exit_kind, feed, current_plays, game_status, pending,
                   last_play_id, current_runners, batter_stats,
                   pitcher_stats, printed, final_emitted, tick_cursor,
                   prev_len, trace, arg_play, prior_runners, processed,
                   commentary, diamond, attempts, game_data>>

\* get_game_data returns a snapshot; the new plays, if any, are sliced
GetGameData ==
    /\ pc = "fetch"
    /\ \E f \in Extensions(feed), st \in Statuses :
         \E n \in 0..Len(f) :
            /\ feed' = f
            /\ current_plays' = SubSeq(f, 1, n)
            /\ game_status' = st
    /\ tick_cursor' = last_play_id
    /\ prev_len' = IF tick_cursor = -1 THEN -1 ELSE Len(current_plays)
    /\ trace' = <<>>
    /\ IF HasNewPlays(current_plays', last_play_id)
       THEN /\ pending' = NewPlays(current_plays', last_play_id)
            /\ pc' = IF pending' = <<>> THEN "advance_cursor"
                     ELSE "update_runners"
       ELSE /\ pending' = <<>>
            /\ pc' = "check_status"
    /\ UNCHANGED <<error, exit_kind, last_play_id, current_runners,
                   batter_stats, pitcher_stats, printed, final_emitted,
                   arg_play, prior_runners, processed,
                   commentary, diamond, attempts, game_data>>

\* get_game_data raises (transport error), or the payload lacks the play
\* list (KeyError): no except clause of simulate_game or main matches
GetGameDataFails ==
    /\ pc = "fetch"
    /\ pc' = "crashed"
    /\ error' = "fetch"
    /\ UNCHANGED <<exit_kind, feed, current_plays, game_status, pending,
                   last_play_id, current_runners, batter_stats,
                   pitcher_stats, printed, final_emitted, tick_cursor,
                   prev_len, trace, arg_play, prior_runners, processed,
                   commentary, diamond, attempts, game_data>>

\* self.update_runners(play)
UpdateRunners ==
    /\ pc = "update_runners"
    /\ LET pos == Head(pending)
           r == update_runners(current_runners, PlayAt(current_plays, pos))
       IN /\ current_runners' = r.runners
          /\ trace' = Append(trace, <<"update_runners", pos>>)
          /\ pc' = IF r.raised THEN "crashed" ELSE "show_play"
          /\ error' = IF r.raised THEN "play" ELSE error
    /\ UNCHANGED <<exit_kind, feed, current_plays, game_status, pending,
                   last_play_id, batter_stats, pitcher_stats, printed,
                   final_emitted, tick_cursor, prev_len, arg_play,
                   prior_runners, processed,
                   commentary, diamond, attempts, game_data>>

\* the names are resolved, the diamond drawn, the commentary generated
\* and the bundle printed
ShowPlay ==
    /\ pc = "show_play"
    /\ trace' = Append(trace, <<"generate_commentary", Head(pending)>>)
    /\ pc' = "update_stats"
    /\ UNCHANGED <<error, exit_kind, feed, current_plays, game_status,
                   pending, last_play_id, current_runners, batter_stats,
                   pitcher_stats, printed, final_emitted, tick_cursor,
                   prev_len, arg_play, prior_runners, processed,
                   commentary, diamond, attempts, game_data>>

\* get_player_name raises (transport error)
PlayerLookupFails ==
    /\ pc = "show_play"
    /\ pc' = "crashed"
    /\ error' = "lookup"
    /\ UNCHANGED <<exit_kind, feed, current_plays, game_status, pending,
                   last_play_id, current_runners, batter_stats,
                   pitcher_stats, printed, final_emitted, tick_cursor,
                   prev_len, trace, arg_play, prior_runners, processed,
                   commentary, diamond, attempts, game_data>>

\* self.update_stats(play, batter_id, pitcher_id)
UpdateStats ==
    /\ pc = "update_stats"
    /\ LET pos == Head(pending)
           play == PlayAt(current_plays, pos)
           r == update_stats(batter_stats, pitcher_stats, play, play.batter,
                             play.pitcher)
       IN /\ batter_stats' = r.batter_stats
          /\ pitcher_stats' = r.pitcher_stats
          /\ trace' = Append(trace, <<"update_stats", pos>>)
          /\ processed' = Append(processed, play)
    /\ pc' = "play_delay"
    /\ UNCHANGED <<error, exit_kind, feed, current_plays, game_status,
                   pending, last_play_id, current_runners, printed,
                   final_emitted, tick_cursor, prev_len, arg_play,
                   prior_runners, commentary, diamond, attempts, game_data>>

\* a get_player_name inside update_stats raises (transport error)
UpdateStatsLookupFails ==
    /\ pc = "update_stats"
    /\ LET play == PlayAt(current_plays, Head(pending))
       IN batter_stats' \in LookupRaiseOutcomes(batter_stats, pitcher_stats,
                                                play.batter, play.pitcher)
    /\ pc' = "crashed"
    /\ error' = "lookup"
    /\ UNCHANGED <<exit_kind, feed, current_plays, game_status, pending,
                   last_play_id, current_runners, pitcher_stats, printed,
                   final_emitted, tick_cursor, prev_len, trace, arg_play,
                   prior_runners, processed, commentary, diamond, attempts, game_data>>

\* time.sleep(5), then the next play of the slice or the end of the for loop
PlayDelay ==
    /\ pc = "play_delay"
    /\ pending' = Tail(pending)
    /\ pc' = IF pending' = <<>> THEN "advance_cursor" ELSE "update_runners"
    /\ UNCHANGED <<error, exit_kind, feed, current_plays, game_status,
                   last_play_id, current_runners, batter_stats,
                   pitcher_stats, printed, final_emitted, tick_cursor,
                   prev_len, trace, arg_play, prior_runners, processed,
                   commentary, diamond, attempts, game_data>>

\* self.last_play_id = len(current_plays)
AdvancedCursor_next(plays, cursor) == cursor + 1

AdvancedCursor(plays, cursor) == Len(plays)

AdvanceCursor ==
    /\ pc = "advance_cursor"
    /\ last_play_id' = AdvancedCursor(current_plays, last_play_id)
    /\ pc' = "check_status"
    /\ UNCHANGED <<error, exit_kind, feed, current_plays, game_status,
                   pending, current_runners, batter_stats, pitcher_stats,
                   printed, final_emitted, tick_cursor, prev_len, trace,
                   arg_play, prior_runners, processed,
                   commentary, diamond, attempts, game_data>>

\* abstractGameState == 'Final'
GameOver_never(status) == FALSE

GameOver(status) == status = "Final"

\* the game is over: the final score is printed and the loop is left
CheckStatusFinal ==
    /\ pc = "check_status"
    /\ GameOver(game_status)
    /\ final_emitted' = TRUE
    /\ exit_kind' = "final"
    /\ pc' = "print_stats"
    /\ UNCHANGED <<error, feed, current_plays, game_status, pending,
                   last_play_id, current_runners, batter_stats,
                   pitcher_stats, printed, tick_cursor, prev_len, trace,
                   arg_play, prior_runners, processed,
                   commentary, diamond, attempts, game_data>>

\* the game is not over: on to time.sleep(10)
CheckStatusLive ==
    /\ pc = "check_status"
    /\ ~GameOver(game_status)
    /\ pc' = "sleep"
    /\ UNCHANGED <<error, exit_kind, feed, current_plays, game_status,
                   pending, last_play_id, current_runners, batter_stats,
                   pitcher_stats, printed, final_emitted, tick_cursor,
                   prev_len, trace, arg_play, prior_runners, processed,
                   commentary, diamond, attempts, game_data>>

\* time.sleep(10) returns
PollSleep ==
    /\ pc = "sleep"
    /\ pc' = "fetch"
    /\ UNCHANGED <<error, exit_kind, feed, current_plays, game_status,
                   pending, last_play_id, current_runners, batter_stats,
                   pitcher_stats, printed, final_emitted, tick_cursor,
                   prev_len, trace, arg_play, prior_runners, processed,
                   commentary, diamond, attempts, game_data>>

\* what the except KeyboardInterrupt clause leaves of the two stat maps
AfterInterrupt_reset(bs, ps) ==
    [batter_stats |-> EmptyDict, pitcher_stats |-> EmptyDict]

AfterInterrupt(bs, ps) == [batter_stats |-> bs, pitcher_stats |-> ps]

\* Ctrl+C: KeyboardInterrupt is raised at whatever statement is running
Interrupt ==
    /\ pc \in TryPcs
    /\ pc' = "print_stats"
    /\ exit_kind' = "cancel"
    /\ batter_stats' = AfterInterrupt(batter_stats, pitcher_stats).batter_stats
    /\ pitcher_stats' =
           AfterInterrupt(batter_stats, pitcher_stats).pitcher_stats
    /\ UNCHANGED <<error, feed, current_plays, game_status, pending,
                   last_play_id, current_runners, printed, final_emitted,
                   tick_cursor, prev_len, trace, arg_play, prior_runners, processed,
                   commentary, diamond, attempts, game_data>>

\* n / d rounded to the nearest integer, ties to the even one: what
\* round(x, k) gives for the quotients of these small integers
RoundHalfEven(n, d) ==
    LET q == n \div d
        r == n % d
    IN IF 2 * r < d THEN q
       ELSE IF 2 * r > d THEN q + 1
       ELSE IF q % 2 = 0 THEN q ELSE q + 1

EraDivisor_raw(ip) == ip

\* pitcher['ip'] if pitcher['ip'] > 0 else 1
EraDivisor(ip) == IF ip > 0 THEN ip ELSE 1

\* round(h / ab, 3) if ab > 0 else 0.000, in thousandths
BattingAverage(b) ==
    IF b.ab > 0 THEN RoundHalfEven(b.h * 1000, b.ab) ELSE 0

\* round((er * 9) / divisor, 2), in hundredths
EarnedRunAverage(p) == RoundHalfEven(p.er * 900, EraDivisor(p.ip))

\* print_stats: the records shown and the two derived figures of each
\* line; a division by zero raises ZeroDivisionError
print_stats(bs, ps) ==
    LET faults == \E p \in DOMAIN ps : EraDivisor(ps[p].ip) = 0
    IN [raised |-> faults,
        shown |-> IF faults THEN NothingPrinted
                  ELSE [shown |-> TRUE, batters |-> bs, pitchers |-> ps,
                        avgs |-> [b \in DOMAIN bs |-> BattingAverage(bs[b])],
                        eras |-> [p \in DOMAIN ps |->
                                     EarnedRunAverage(ps[p])]]]

\* simulator.print_stats()
PrintStats ==
    /\ pc = "print_stats"
    /\ LET r == print_stats(batter_stats, pitcher_stats)
       IN /\ printed' = r.shown
          /\ pc' = IF r.raised THEN "crashed" ELSE "ask"
          /\ error' = IF r.raised THEN "zero_division" ELSE error
    /\ UNCHANGED <<exit_kind, feed, current_plays, game_status,
                   pending, last_play_id, current_runners, batter_stats,
                   pitcher_stats, final_emitted, tick_cursor, prev_len,
                   trace, arg_play, prior_runners, processed,
                   commentary, diamond, attempts, game_data>>

NewGameReset_keepstats(bs, ps) ==
    [last_play_id |-> 0, batter_stats |-> bs, pitcher_stats |-> ps]

\* "Reset for new game": the three assignments that end main's loop body
NewGameReset(bs, ps) ==
    [last_play_id |-> 0, batter_stats |-> EmptyDict,
     pitcher_stats |-> EmptyDict]

\* the operator answers Y: reset for a new game
AskYes ==
    /\ pc = "ask"
    /\ last_play_id' = NewGameReset(batter_stats, pitcher_stats).last_play_id
    /\ batter_stats' = NewGameReset(batter_stats, pitcher_stats).batter_stats
    /\ pitcher_stats' =
           NewGameReset(batter_stats, pitcher_stats).pitcher_stats
    /\ processed' = <<>>
    /\ pc' = "select"
    /\ UNCHANGED <<error, exit_kind, feed, current_plays, game_status,
                   pending, current_runners, printed, final_emitted,
                   tick_cursor, prev_len, trace, arg_play, prior_runners, commentary, diamond, attempts, game_data>>

\* the operator answers anything else
AskNo ==
    /\ pc = "ask"
    /\ pc' = "exit"
    /\ UNCHANGED <<error, exit_kind, feed, current_plays, game_status,
                   pending, last_play_id, current_runners, batter_stats,
                   pitcher_stats, printed, final_emitted, tick_cursor,
                   prev_len, trace, arg_play, prior_runners, processed,
                   commentary, diamond, attempts, game_data>>

Next ==
    \/ SelectGame
    \/ Quit
    \/ GetLiveGamesFails
    \/ GetGameData
    \/ GetGameDataFails
    \/ UpdateRunners
    \/ ShowPlay
    \/ PlayerLookupFails
    \/ UpdateStats
    \/ UpdateStatsLookupFails
    \/ PlayDelay
    \/ AdvanceCursor
    \/ CheckStatusFinal
    \/ CheckStatusLive
    \/ PollSleep
    \/ Interrupt
    \/ PrintStats
    \/ AskYes
    \/ AskNo

Spec == Init /\ [][Next]_vars

-----------------------------------------------------------------------------
(* update_runners called on its own, on any play and any tracker state *)

\* the runner-movement entries a play can carry
RunnerEntries ==
    {Entry(e, i) : e \in Bases, i \in {1, OtherRunner, NoId}}
        \cup {Entry("score", OtherRunner), Entry(NoKey, OtherRunner)}

RunnerPlays ==
    {Play(ev, b, 3, TRUE, rs, FALSE, 0, FALSE) :
        ev \in EventTypes, b \in Batters,
        rs \in SeqsUpTo(RunnerEntries, MaxRunners)}
      \cup {Play(ev, b, 3, FALSE, <<>>, FALSE, 0, FALSE) :
              ev \in EventTypes, b \in Batters}

\* the tracker states the call can start from
PriorStates == [Bases -> {None, OtherRunner}]

RunnerInit ==
    /\ pc = "call_update_runners"
    /\ error = "none"
    /\ exit_kind = "none"
    /\ feed = <<>>
    /\ current_plays = <<>>
    /\ game_status = "Live"
    /\ pending = <<>>
    /\ last_play_id = 0
    /\ current_runners \in PriorStates
    /\ batter_stats = EmptyDict
    /\ pitcher_stats = EmptyDict
    /\ printed = NothingPrinted
    /\ final_emitted = FALSE
    /\ tick_cursor = -1
    /\ prev_len = -1
    /\ trace = <<>>
    /\ arg_play \in RunnerPlays
    /\ prior_runners = current_runners
    /\ processed = <<>>
    /\ commentary = NoCommentary
    /\ diamond = NoDiamond
    /\ attempts = <<>>
    /\ game_data = NoGameData

\* self.update_runners(arg_play) runs to its return or to its KeyError
CallUpdateRunners ==
    /\ pc = "call_update_runners"
    /\ LET r == update_runners(current_runners, arg_play)
       IN /\ current_runners' = r.runners
          /\ error' = IF r.raised THEN "play" ELSE "none"
    /\ pc' = "update_runners_done"
    /\ UNCHANGED <<exit_kind, feed, current_plays, game_status, pending,
                   last_play_id, batter_stats, pitcher_stats, printed,
                   final_emitted, tick_cursor, prev_len, trace, arg_play,
                   prior_runners, processed,
                   commentary, diamond, attempts, game_data>>

RunnerNext == CallUpdateRunners

RunnerSpec == RunnerInit /\ [][RunnerNext]_vars

-----------------------------------------------------------------------------
(* Properties of the polling loop *)

\* the operations one play is dispatched to, in the order of the loop body
Ops == <<"update_runners", "generate_commentary", "update_stats">>

\* the dispatches of a tick that processes positions c .. L-1 in feed order
ExpectedTrace(c, L) ==
    [k \in 1..(3 * (L - c)) |-> <<Ops[((k - 1) % 3) + 1], c + ((k - 1) \div 3)>>]

\* the last snapshot brought no play beyond the cursor it was compared with
NoNewPlaysTick == tick_cursor # -1 /\ Len(current_plays) <= tick_cursor

\* C1: a failed feed fetch does not end the loop: the tick processes no
\* play, leaves the cursor and both stat maps alone, and the loop goes on
\* to the next scheduled poll.
C1_FetchFailureKeepsLooping ==
    error = "fetch" =>
        /\ pc \in {"sleep", "fetch"}
        /\ trace = <<>>

\* C2: after a cancellation, every play has had both its Runner Tracker
\* update and its Stat Accumulator update applied, or neither.
C2_CancelNeverSplitsPlay ==
    exit_kind = "cancel" =>
        \A pos \in 0..MaxPlays :
            (\E k \in 1..Len(trace) : trace[k] = <<"update_runners", pos>>)
                <=> (\E k \in 1..Len(trace) : trace[k] = <<"update_stats", pos>>)

\* a step inside a session that ends in a tick without new plays
NoNewPlaysStep ==
    pc \in TryPcs /\ pc' \in TryPcs /\ NoNewPlaysTick' =>
        UNCHANGED <<last_play_id, current_runners, batter_stats,
                    pitcher_stats>>

\* C3: on a tick whose play list is not longer than the Poll Cursor nothing
\* is dispatched and the cursor, the tracker state and both stat maps stay
\* as they are; a poll returning the same length as the poll before it
\* dispatches nothing.
C3_RepollIdempotent ==
    /\ [](pc \in TryPcs /\ NoNewPlaysTick =>
            /\ trace = <<>>
            /\ pending = <<>>
            /\ last_play_id = tick_cursor)
    /\ [](pc \in TryPcs /\ prev_len # -1 /\ Len(current_plays) = prev_len =>
            trace = <<>>)
    /\ [][NoNewPlaysStep]_vars

W_C3_SameLengthRepoll ==
    /\ pc = "check_status"
    /\ prev_len = 2
    /\ Len(current_plays) = 2
    /\ tick_cursor = 2
    /\ batter_stats # EmptyDict

\* C4: a tick whose play list has length L greater than the cursor c
\* dispatches exactly the positions c .. L-1, each once and in feed order,
\* and leaves the cursor at L; a first tick with 0 plays dispatches nothing
\* and leaves the cursor at 0.  At every moment, also of a tick that is cut
\* short, what has been dispatched is a prefix of that order.
C4_SuffixProcessedInOrder ==
    /\ (tick_cursor # -1 =>
            IsPrefix(trace, ExpectedTrace(tick_cursor, Len(current_plays))))
    /\ (pc \in {"check_status", "sleep"} /\ Len(current_plays) > tick_cursor =>
            /\ last_play_id = Len(current_plays)
            /\ trace = ExpectedTrace(tick_cursor, Len(current_plays)))
    /\ (pc \in {"check_status", "sleep"} /\ prev_len = -1
          /\ tick_cursor = 0 /\ Len(current_plays) = 0 =>
            /\ last_play_id = 0
            /\ trace = <<>>)

W_C4_ZeroThenTwo ==
    /\ pc = "check_status"
    /\ prev_len = 0
    /\ tick_cursor = 0
    /\ last_play_id = 2
    /\ trace = <<<<"update_runners", 0>>, <<"generate_commentary", 0>>,
                 <<"update_stats", 0>>, <<"update_runners", 1>>,
                 <<"generate_commentary", 1>>, <<"update_stats", 1>>>>

\* a step taken inside simulate_game's loop does not lower the cursor
CursorStep == pc \in TryPcs => (last_play_id' >= last_play_id)

\* C5: within one call of simulate_game the Poll Cursor never decreases.
C5_CursorMonotone == [][CursorStep]_vars

W_C5_ShorterSnapshot ==
    /\ pc = "check_status"
    /\ prev_len = 2
    /\ Len(current_plays) = 1
    /\ last_play_id = 2

\* how the loop leaves the status check and the sleep
StatusCheckStep ==
    /\ (exit_kind # "final" /\ exit_kind' = "final" =>
           pc = "check_status" /\ game_status = "Final")
    /\ (pc = "check_status" /\ exit_kind' # "cancel" =>
           IF game_status = "Final"
           THEN pc' = "print_stats" /\ exit_kind' = "final"
           ELSE pc' = "sleep" /\ exit_kind' = "none")
    /\ (pc = "sleep" /\ exit_kind' # "cancel" => pc' = "fetch")

\* C6: the loop ends normally only at the status check of a tick whose
\* snapshot is Final, after every new play of that snapshot has been
\* processed and with the final score emitted, and without sleeping; a tick
\* that is not Final goes on to the sleep and then to the next poll.
C6_FinalEndsLoop ==
    /\ [](exit_kind = "final" /\ pc \in {"print_stats", "ask"} =>
            /\ game_status = "Final"
            /\ final_emitted
            /\ last_play_id >= Len(current_plays)
            /\ (Len(current_plays) > tick_cursor =>
                  trace = ExpectedTrace(tick_cursor, Len(current_plays))))
    /\ [][StatusCheckStep]_vars

W_C6_FinalTickWithNewPlays ==
    /\ pc = "print_stats"
    /\ exit_kind = "final"
    /\ final_emitted
    /\ tick_cursor = 1
    /\ last_play_id = 2

\* how a cancellation leaves the loop, and what main does next
CancelStep ==
    /\ (exit_kind # "cancel" /\ exit_kind' = "cancel" =>
           /\ pc \in TryPcs
           /\ pc' = "print_stats"
           /\ error' = "none"
           /\ UNCHANGED <<batter_stats, pitcher_stats>>)
    /\ (pc = "print_stats" =>
           /\ pc' = "ask"
           /\ UNCHANGED <<batter_stats, pitcher_stats>>)

\* C7: a KeyboardInterrupt can arrive at every position of the loop; it
\* makes simulate_game return normally with both stat maps as they were,
\* and main then prints those stats before it asks about another game.
C7_CancelIsCleanExit ==
    /\ [](pc \in TryPcs => ENABLED Interrupt)
    /\ [](pc = "ask" =>
            /\ printed.shown
            /\ printed.batters = batter_stats
            /\ printed.pitchers = pitcher_stats)
    /\ [][CancelStep]_vars

W_C7_CancelledThenPrinted ==
    /\ pc = "ask"
    /\ exit_kind = "cancel"
    /\ batter_stats # EmptyDict
    /\ printed.batters = batter_stats
    /\ last_play_id = 0

-----------------------------------------------------------------------------
(* Properties of update_runners *)

\* C8: the tracker state update_runners leaves does not depend on the
\* state it started from: from every other prior state the same play gives
\* the same occupancy (and the same outcome, return or KeyError).
C8_FullReplace ==
    pc = "update_runners_done" =>
        \A A \in PriorStates :
            /\ update_runners(A, arg_play).runners = current_runners
            /\ update_runners(A, arg_play).raised = (error = "play")

W_C8_PriorRunnerGone ==
    /\ pc = "update_runners_done"
    /\ prior_runners["3B"] = OtherRunner
    /\ current_runners["3B"] = None
    /\ current_runners["1B"] = 1

\* the movement entries of the play put player i on first base
MovesToFirst(play, i) ==
    /\ play.hasRunners
    /\ \E k \in 1..Len(play.runners) : play.runners[k] = Entry("1B", i)

\* C9: on a double whose movement data places the batter at first base,
\* the batter ends at second base and not at first base.
C9_DoubleNotAtFirst ==
    (/\ pc = "update_runners_done"
     /\ error = "none"
     /\ arg_play.eventType = "double"
     /\ MovesToFirst(arg_play, arg_play.batter)) =>
        /\ current_runners["2B"] = arg_play.batter
        /\ current_runners["1B"] # arg_play.batter

\* C10: after update_runners on a homerun play all three bases are empty,
\* whatever the prior occupancy and the movement entries of the play.
C10_HomerunClearsBases ==
    (/\ pc = "update_runners_done"
     /\ error = "none"
     /\ arg_play.eventType = "homerun") =>
        current_runners = EmptyBases

\* the occupancy the movement entries of a play describe: on each base the
\* runner of the last entry that ends there, nobody where no entry ends
MovementOccupancy(play) ==
    [b \in Bases |->
        LET ks == IF play.hasRunners
                  THEN {k \in 1..Len(play.runners) : play.runners[k].end = b}
                  ELSE {}
        IN IF ks = {} THEN None
           ELSE play.runners[CHOOSE k \in ks : \A j \in ks : j <= k].id]

\* C11: on a walk the batter is put on first base if and only if the
\* movement entries left every base empty; otherwise the state is exactly
\* what the movement entries placed (no forcing of runners).
C11_WalkRule ==
    (/\ pc = "update_runners_done"
     /\ error = "none"
     /\ arg_play.eventType = "walk") =>
        LET moved == MovementOccupancy(arg_play)
        IN IF \A b \in Bases : moved[b] = None
           THEN current_runners = [moved EXCEPT !["1B"] = arg_play.batter]
           ELSE current_runners = moved

W_C11_WalkWithRunnerOn ==
    /\ pc = "update_runners_done"
    /\ error = "none"
    /\ arg_play.eventType = "walk"
    /\ arg_play.batter = 2
    /\ current_runners = [EmptyBases EXCEPT !["2B"] = OtherRunner]

\* C12: for an event type other than single, double, triple, homerun and
\* walk the state after update_runners is exactly the occupancy of the
\* movement entries that end on first, second or third base.
C12_NoInferenceForOtherEvents ==
    (/\ pc = "update_runners_done"
     /\ error = "none"
     /\ arg_play.eventType \notin
            {"single", "double", "triple", "homerun", "walk"}) =>
        current_runners = MovementOccupancy(arg_play)

W_C12_GroundoutMovesRunner ==
    /\ pc = "update_runners_done"
    /\ error = "none"
    /\ arg_play.eventType = "groundout"
    /\ arg_play.runners = <<Entry("score", OtherRunner), Entry("3B", 1)>>
    /\ prior_runners["1B"] = OtherRunner
    /\ current_runners = [EmptyBases EXCEPT !["3B"] = 1]

\* C13: update_runners never raises: with the runners list absent or an
\* entry lacking its ending base or its runner id it returns, and that data
\* places no runner.
C13_UpdateRunnersTotal ==
    pc = "update_runners_done" => error = "none"

-----------------------------------------------------------------------------
(* update_stats called on its own, play after play *)

\* a play as update_stats reads it: event type, batter, pitcher, result.rbi
StatPlay(ev, b, p, hrbi, rbi) == Play(ev, b, p, FALSE, <<>>, hrbi, rbi, FALSE)

StatPlays ==
    { StatPlay("single", 1, 3, FALSE, 0), StatPlay("single", 1, 3, TRUE, 1),
      StatPlay("single", 2, 4, FALSE, 0), StatPlay("single", 1, 4, TRUE, 2),
      StatPlay("double", 1, 3, TRUE, 1), StatPlay("double", 2, 3, FALSE, 0),
      StatPlay("triple", 2, 4, TRUE, 2), StatPlay("triple", 1, 3, FALSE, 0),
      StatPlay("homerun", 1, 3, TRUE, 1), StatPlay("homerun", 2, 4, TRUE, 2),
      StatPlay("homerun", 2, 3, FALSE, 0),
      StatPlay("strikeout", 1, 3, FALSE, 0),
      StatPlay("strikeout", 2, 4, FALSE, 0),
      StatPlay("strikeout", 2, 3, FALSE, 0),
      StatPlay("walk", 1, 3, FALSE, 0),
      StatPlay("field_error", 2, 4, FALSE, 0),
      StatPlay("groundout", 1, 4, TRUE, 1) }

StatInit ==
    /\ pc = "call_update_stats"
    /\ error = "none"
    /\ exit_kind = "none"
    /\ feed = <<>>
    /\ current_plays = <<>>
    /\ game_status = "Live"
    /\ pending = <<>>
    /\ last_play_id = 0
    /\ current_runners = EmptyBases
    /\ batter_stats = EmptyDict
    /\ pitcher_stats = EmptyDict
    /\ printed = NothingPrinted
    /\ final_emitted = FALSE
    /\ tick_cursor = -1
    /\ prev_len = -1
    /\ trace = <<>>
    /\ arg_play = DefaultPlay
    /\ prior_runners = EmptyBases
    /\ processed = <<>>
    /\ commentary = NoCommentary
    /\ diamond = NoDiamond
    /\ attempts = <<>>
    /\ game_data = NoGameData

\* self.update_stats(play, batter_id, pitcher_id) on the next play
CallUpdateStats ==
    /\ pc = "call_update_stats"
    /\ Len(processed) < MaxStatPlays
    /\ \E play \in StatPlays :
         LET r == update_stats(batter_stats, pitcher_stats, play,
                               play.batter, play.pitcher)
         IN /\ batter_stats' = r.batter_stats
            /\ pitcher_stats' = r.pitcher_stats
            /\ arg_play' = play
            /\ processed' = Append(processed, play)
    /\ UNCHANGED <<pc, error, exit_kind, feed, current_plays, game_status,
                   pending, last_play_id, current_runners, printed,
                   final_emitted, tick_cursor, prev_len, trace,
                   prior_runners, commentary, diamond, attempts, game_data>>

\* a get_player_name inside that call raises: the call does not return
CallUpdateStatsLookupFails ==
    /\ pc = "call_update_stats"
    /\ Len(processed) < MaxStatPlays
    /\ \E play \in StatPlays :
         /\ batter_stats' \in LookupRaiseOutcomes(batter_stats, pitcher_stats,
                                                   play.batter, play.pitcher)
         /\ arg_play' = play
    /\ pc' = "update_stats_raised"
    /\ error' = "lookup"
    /\ UNCHANGED <<exit_kind, feed, current_plays, game_status, pending,
                   last_play_id, current_runners, pitcher_stats, printed,
                   final_emitted, tick_cursor, prev_len, trace,
                   prior_runners, processed, commentary, diamond, attempts, game_data>>

StatNext == CallUpdateStats \/ CallUpdateStatsLookupFails

StatSpec == StatInit /\ [][StatNext]_vars

-----------------------------------------------------------------------------
(* Properties of update_stats *)

\* the number of processed plays of one of the event types evs by batter b
BatterPlays(b, evs) ==
    Cardinality({k \in 1..Len(processed) :
                    processed[k].batter = b /\ processed[k].eventType \in evs})

\* the record a dictionary holds for k, or the given one if it holds none
RecordOr(d, k, zero) == IF k \in DOMAIN d THEN d[k] ELSE zero

ZeroBatter(id) == [name |-> id, ab |-> 0, h |-> 0, hr |-> 0, rbi |-> 0]
ZeroPitcher(id) == [name |-> id, ip |-> 0, h |-> 0, er |-> 0, so |-> 0]

\* a dictionary after the step holds what it held, plus a zero record for
\* the key k if it had none
OnlyAdded(d, dNew, k, zero) ==
    /\ DOMAIN dNew = (DOMAIN d) \cup {k}
    /\ \A x \in DOMAIN d : dNew[x] = d[x]
    /\ dNew[k] = RecordOr(d, k, zero)

\* update_stats is applied to one more play of one of the event types evs
StatsAppliedTo(evs) ==
    /\ processed' # processed
    /\ processed' # <<>>
    /\ processed'[Len(processed')].eventType \in evs

\* the play that step is applied to
Applied == processed'[Len(processed')]

\* C14: after any sequence of processed plays each batter's hits and
\* at-bats equal the number of processed single, double, triple and homerun
\* plays of that batter, and the home runs the number of the homeruns.
C14_HitsAndAtBats ==
    \A b \in Batters :
        LET r == RecordOr(batter_stats, b, ZeroBatter(b))
            hits == BatterPlays(b, {"single", "double", "triple", "homerun"})
        IN /\ r.h = hits
           /\ r.ab = hits
           /\ r.hr = BatterPlays(b, {"homerun"})

W_C14_ThreeSingles ==
    /\ pc = "call_update_stats"
    /\ Len(processed) = 3
    /\ \A k \in 1..3 :
          processed[k].eventType = "single" /\ processed[k].batter = 1
    /\ batter_stats[1].h = 3
    /\ batter_stats[1].ab = 3

\* a strikeout adds one to the pitcher's strikeouts and nothing else
StrikeoutPitcherStep ==
    StatsAppliedTo({"strikeout"}) =>
        LET P == Applied.pitcher
            old == RecordOr(pitcher_stats, P, ZeroPitcher(P))
        IN /\ DOMAIN pitcher_stats' = (DOMAIN pitcher_stats) \cup {P}
           /\ pitcher_stats'[P] = [old EXCEPT !.so = @ + 1]
           /\ \A q \in (DOMAIN pitcher_stats) \ {P} :
                 pitcher_stats'[q] = pitcher_stats[q]

\* C15 as stated: a strikeout by pitcher P adds exactly 1 to P's
\* strikeouts, changes no other pitcher counter, and leaves the batter map
\* as it was.
StrikeoutStepAsStated ==
    /\ StrikeoutPitcherStep
    /\ (StatsAppliedTo({"strikeout"}) => batter_stats' = batter_stats)

C15_StrikeoutLeavesBatterMap == [][StrikeoutStepAsStated]_vars

\* C15 as amended: a strikeout by pitcher P adds exactly 1 to P's
\* strikeouts and changes no other pitcher counter and no existing batter
\* record; a batter without a record gets a zero-valued one.
StrikeoutStepAmended ==
    /\ StrikeoutPitcherStep
    /\ (StatsAppliedTo({"strikeout"}) =>
          OnlyAdded(batter_stats, batter_stats', Applied.batter,
                    ZeroBatter(Applied.batter)))

C15_StrikeoutAddsOnlyZeroBatter == [][StrikeoutStepAmended]_vars

W_C15_StrikeoutCreatesBatter ==
    /\ pc = "call_update_stats"
    /\ Len(processed) = 2
    /\ processed[1].eventType = "single"
    /\ processed[1].batter = 1
    /\ processed[2].eventType = "strikeout"
    /\ processed[2].batter = 2
    /\ DOMAIN batter_stats = {1, 2}
    /\ batter_stats[2] = ZeroBatter(2)
    /\ pitcher_stats[processed[2].pitcher].so = 1

\* the event types update_stats has no rule for
OtherTypes == EventTypes \ {"single", "double", "triple", "homerun", "strikeout"}

\* C16 as stated: a play of any other event type leaves the batter map and
\* the pitcher map unchanged.
OtherStepAsStated ==
    StatsAppliedTo(OtherTypes) =>
        /\ batter_stats' = batter_stats
        /\ pitcher_stats' = pitcher_stats

C16_OtherEventLeavesMaps == [][OtherStepAsStated]_vars

\* C16 as amended: a play of any other event type changes no existing
\* record of either map; the batter and the pitcher get a zero-valued record
\* if they had none.
OtherStepAmended ==
    StatsAppliedTo(OtherTypes) =>
        /\ OnlyAdded(batter_stats, batter_stats', Applied.batter,
                     ZeroBatter(Applied.batter))
        /\ OnlyAdded(pitcher_stats, pitcher_stats', Applied.pitcher,
                     ZeroPitcher(Applied.pitcher))

C16_OtherEventAddsOnlyZeroRecords == [][OtherStepAmended]_vars

W_C16_WalkCreatesRecords ==
    /\ pc = "call_update_stats"
    /\ Len(processed) = 2
    /\ processed[1].eventType = "homerun"
    /\ processed[1].batter = 2
    /\ processed[1].pitcher = 4
    /\ processed[2].eventType = "walk"
    /\ batter_stats[1] = ZeroBatter(1)
    /\ pitcher_stats[3] = ZeroPitcher(3)
    /\ batter_stats[2].hr = 1

\* a hit adds one to the pitcher's hits allowed and the play's rbi, if it
\* reports one, to the earned runs
HitPitcherStep ==
    StatsAppliedTo({"single", "double", "triple", "homerun"}) =>
        LET P == Applied.pitcher
            old == RecordOr(pitcher_stats, P, ZeroPitcher(P))
            runs == IF Applied.hasRbi THEN Applied.rbi ELSE 0
        IN /\ pitcher_stats'[P].h = old.h + 1
           /\ pitcher_stats'[P].er = old.er + runs
           /\ pitcher_stats'[P].so = old.so

\* C17: a single, double, triple or homerun adds exactly 1 to the pitcher's
\* hits allowed and the play's reported rbi (0 when absent) to the
\* pitcher's earned runs, and leaves the pitcher's strikeouts alone.
C17_HitChargesPitcher == [][HitPitcherStep]_vars

W_C17_RbiBecomesEarnedRun ==
    /\ pc = "call_update_stats"
    /\ Len(processed) = 2
    /\ processed[1].eventType = "strikeout"
    /\ processed[1].pitcher = 4
    /\ processed[2].eventType = "triple"
    /\ processed[2].pitcher = 4
    /\ processed[2].hasRbi
    /\ processed[2].rbi = 2
    /\ pitcher_stats[4] = [name |-> 4, ip |-> 0, h |-> 1, er |-> 2, so |-> 1]

-----------------------------------------------------------------------------
(* generate_commentary *)

\* a play as generate_commentary reads it: result.eventType,
\* result.description, the runners' movement.start / movement.end, count
\* and outs; hasRunners / hasCount / hasOuts say whether the key is present,
\* balls / strikes are NoId when count lacks that key
CommentaryPlay(ev, desc, hr, ms, hc, balls, strikes, ho, outs) ==
    [eventType |-> ev, description |-> desc, hasRunners |-> hr,
     runners |-> ms, hasCount |-> hc, balls |-> balls, strikes |-> strikes,
     hasOuts |-> ho, outs |-> outs]

Move(s, e) == [start |-> s, end |-> e]

\* len(self.commentary_flavors[event_type])
NumFlavors(ev) ==
    IF ev \in {"single", "homerun"} THEN 4
    ELSE IF ev \in FlavorTypes THEN 3 ELSE 0

\* the indices random.choice can pick for an event type
FlavorChoices(ev) == IF ev \in FlavorTypes THEN 1..NumFlavors(ev) ELSE {1}

\* the flavor string prefixed to the description, 0 for none
FlavorOf_default(ev, choice) == IF ev \in FlavorTypes THEN choice ELSE 1

FlavorOf(ev, choice) == IF ev \in FlavorTypes THEN choice ELSE 0

\* the loop over the runners: the "Runner from .. to .." texts, or KeyError
RECURSIVE RunnerText(_, _)
RunnerText(acc, ms) ==
    IF ms = <<>> \/ acc.raised THEN acc
    ELSE LET m == Head(ms) IN
         IF m.end = NoKey \/ m.start = NoKey
         THEN [acc EXCEPT !.raised = TRUE]
         ELSE IF m.end # m.start
              THEN RunnerText([acc EXCEPT
                                 !.moves = Append(@, <<m.start, m.end>>)],
                              Tail(ms))
              ELSE RunnerText(acc, Tail(ms))

\* the parts of the string generate_commentary returns, in their order:
\* flavor, description, runner clause, count clause; or that it raised
\* (a movement entry without start or end, a count without balls or strikes)
generate_commentary(play, choice) ==
    LET runners == IF play.hasRunners THEN play.runners ELSE <<>>
        texts == RunnerText([raised |-> FALSE, moves |-> <<>>], runners)
        badCount == play.hasCount /\ (play.balls = NoId \/ play.strikes = NoId)
    IN IF texts.raised \/ badCount
       THEN [NoCommentary EXCEPT !.raised = TRUE]
       ELSE [raised |-> FALSE,
             flavor |-> FlavorOf(play.eventType, choice),
             description |-> play.description,
             moves |-> texts.moves,
             hasCount |-> play.hasCount,
             balls |-> IF play.hasCount THEN play.balls ELSE 0,
             strikes |-> IF play.hasCount THEN play.strikes ELSE 0,
             outs |-> IF play.hasCount /\ play.hasOuts THEN play.outs ELSE 0]

\* the movement entries a play can carry
MoveEntries ==
    {Move(st, e) : st \in {"None", "1B", "2B", NoKey},
                   e \in {"1B", "2B", "score", NoKey}}

Descriptions == {"Smith reaches on a fielding error.", "Jones strikes out."}

CommentaryPlays ==
    LET counts == { <<FALSE, 0, 0, FALSE, 0>>, <<TRUE, 3, 2, TRUE, 1>>,
                    <<TRUE, 1, 2, FALSE, 0>>, <<TRUE, NoId, 2, TRUE, 1>> }
    IN {CommentaryPlay(ev, d, TRUE, ms, c[1], c[2], c[3], c[4], c[5]) :
            ev \in {"field_error", "balk", "single", "strikeout"},
            d \in Descriptions, ms \in SeqsUpTo(MoveEntries, MaxRunners),
            c \in counts}
        \cup {CommentaryPlay(ev, d, FALSE, <<>>, c[1], c[2], c[3], c[4], c[5]) :
                ev \in {"field_error", "balk", "single", "strikeout"},
                d \in Descriptions, c \in counts}

CommentaryInit ==
    /\ pc = "call_generate_commentary"
    /\ error = "none"
    /\ exit_kind = "none"
    /\ feed = <<>>
    /\ current_plays = <<>>
    /\ game_status = "Live"
    /\ pending = <<>>
    /\ last_play_id = 0
    /\ current_runners = EmptyBases
    /\ batter_stats = EmptyDict
    /\ pitcher_stats = EmptyDict
    /\ printed = NothingPrinted
    /\ final_emitted = FALSE
    /\ tick_cursor = -1
    /\ prev_len = -1
    /\ trace = <<>>
    /\ arg_play \in CommentaryPlays
    /\ prior_runners = EmptyBases
    /\ processed = <<>>
    /\ commentary = NoCommentary
    /\ diamond = NoDiamond
    /\ attempts = <<>>
    /\ game_data = NoGameData

\* self.generate_commentary(arg_play) runs to its return or to its KeyError
CallGenerateCommentary ==
    /\ pc = "call_generate_commentary"
    /\ \E choice \in FlavorChoices(arg_play.eventType) :
          commentary' = generate_commentary(arg_play, choice)
    /\ error' = IF commentary'.raised THEN "play" ELSE "none"
    /\ pc' = "generate_commentary_done"
    /\ UNCHANGED <<exit_kind, feed, current_plays, game_status, pending,
                   last_play_id, current_runners, batter_stats,
                   pitcher_stats, printed, final_emitted, tick_cursor,
                   prev_len, trace, arg_play, prior_runners, processed,
                   diamond, attempts, game_data>>

CommentaryNext == CallGenerateCommentary

CommentarySpec == CommentaryInit /\ [][CommentaryNext]_vars

\* the count/outs clause is there exactly when the play has count data,
\* and reports its balls, strikes and outs (0 outs when the key is absent)
CountClauseAsGiven ==
    /\ commentary.hasCount = arg_play.hasCount
    /\ arg_play.hasCount =>
         /\ commentary.balls = arg_play.balls
         /\ commentary.strikes = arg_play.strikes
         /\ commentary.outs = IF arg_play.hasOuts THEN arg_play.outs ELSE 0

\* generate_commentary has run on a play whose event type has no flavor text
UnknownTypeDone ==
    /\ pc = "generate_commentary_done"
    /\ arg_play.eventType \notin FlavorTypes

\* every key generate_commentary subscripts is present in the play
AllKeysPresent(play) ==
    /\ \A k \in 1..Len(play.runners) :
          play.runners[k].start # NoKey /\ play.runners[k].end # NoKey
    /\ play.hasCount => (play.balls # NoId /\ play.strikes # NoId)

Moved(m) == m.start # m.end

DiamondMarker_any(cr, b) == AnyRunner(cr)

\* '◼' if self.current_runners[b] else '◻'
DiamondMarker(cr, b) == cr[b] # None

\* the keys of current_runners in the order the dict holds them
BaseOrder == <<"1B", "2B", "3B">>

\* the bases the loop over current_runners.items() appends an entry for
RECURSIVE RunnerInfo(_, _)
RunnerInfo(cr, bs) ==
    IF bs = <<>> THEN <<>>
    ELSE IF cr[Head(bs)] # None
         THEN <<<<Head(bs), cr[Head(bs)]>>>> \o RunnerInfo(cr, Tail(bs))
         ELSE RunnerInfo(cr, Tail(bs))

\* the returned text: one marker per base, and the entries of the
\* "Runners:" line (base, id of the runner whose name is looked up); the
\* line is left out when there is no entry
draw_diamond(cr) ==
    [markers |-> [b \in Bases |-> DiamondMarker(cr, b)],
     runner_info |-> RunnerInfo(cr, BaseOrder)]

\* the tracker states draw_diamond is called on
TrackerStates == [Bases -> {None, 1, 2, OtherRunner}]

DiamondInit ==
    /\ pc = "call_draw_diamond"
    /\ error = "none"
    /\ exit_kind = "none"
    /\ feed = <<>>
    /\ current_plays = <<>>
    /\ game_status = "Live"
    /\ pending = <<>>
    /\ last_play_id = 0
    /\ current_runners \in TrackerStates
    /\ batter_stats = EmptyDict
    /\ pitcher_stats = EmptyDict
    /\ printed = NothingPrinted
    /\ final_emitted = FALSE
    /\ tick_cursor = -1
    /\ prev_len = -1
    /\ trace = <<>>
    /\ arg_play = DefaultPlay
    /\ prior_runners = EmptyBases
    /\ processed = <<>>
    /\ commentary = NoCommentary
    /\ diamond = NoDiamond
    /\ attempts = <<>>
    /\ game_data = NoGameData

\* draw_diamond returns
DrawDiamond ==
    /\ pc = "call_draw_diamond"
    /\ diamond' = draw_diamond(current_runners)
    /\ pc' = "draw_diamond_done"
    /\ UNCHANGED <<error, exit_kind, feed, current_plays, game_status,
                   pending, last_play_id, current_runners, batter_stats,
                   pitcher_stats, printed, final_emitted, tick_cursor,
                   prev_len, trace, arg_play, prior_runners, processed,
                   commentary, attempts, game_data>>

\* get_player_name raises for a runner on base: nothing is returned
DrawDiamondLookupFails ==
    /\ pc = "call_draw_diamond"
    /\ AnyRunner(current_runners)
    /\ error' = "lookup"
    /\ pc' = "draw_diamond_done"
    /\ UNCHANGED <<exit_kind, feed, current_plays, game_status,
                   pending, last_play_id, current_runners, batter_stats,
                   pitcher_stats, printed, final_emitted, tick_cursor,
                   prev_len, trace, arg_play, prior_runners, processed,
                   commentary, diamond, attempts, game_data>>

DiamondNext == DrawDiamond \/ DrawDiamondLookupFails

DiamondSpec == DiamondInit /\ [][DiamondNext]_vars

\* draw_diamond has returned a text
DiamondDrawn == pc = "draw_diamond_done" /\ error = "none"

\* C19: the text draw_diamond returns is determined by the tracker state:
\* for each of the three bases the marker is the filled one if and only if
\* that base holds a runner, and the trailing runners line is present if
\* and only if at least one base is occupied, naming each occupied base
\* exactly once (and no empty base).
C19_DiamondReflectsTracker ==
    DiamondDrawn =>
        /\ \A b \in Bases :
              diamond.markers[b] <=> (current_runners[b] # None)
        /\ (diamond.runner_info # <<>>) <=>
              (\E b \in Bases : current_runners[b] # None)
        /\ \A b \in Bases :
              Cardinality({k \in 1..Len(diamond.runner_info) :
                              diamond.runner_info[k][1] = b})
                 = IF current_runners[b] # None THEN 1 ELSE 0
        /\ \A k \in 1..Len(diamond.runner_info) :
              diamond.runner_info[k][2]
                 = current_runners[diamond.runner_info[k][1]]

W_C19_TwoOfThreeOccupied ==
    /\ DiamondDrawn
    /\ current_runners = [EmptyBases EXCEPT !["1B"] = 2, !["3B"] = OtherRunner]
    /\ diamond.markers = [b \in Bases |-> b # "2B"]
    /\ diamond.runner_info = << <<"1B", 2>>, <<"3B", OtherRunner>> >>

\* ------------------------------------------------------------------
\* sessions driven by main (src/live_games.py 269-298)
\* ------------------------------------------------------------------

\* every batter record is still there and none of its counters is lower
BatterRecordsKept ==
    \A id \in DOMAIN batter_stats :
        /\ id \in DOMAIN batter_stats'
        /\ batter_stats'[id].ab >= batter_stats[id].ab
        /\ batter_stats'[id].h >= batter_stats[id].h
        /\ batter_stats'[id].hr >= batter_stats[id].hr
        /\ batter_stats'[id].rbi >= batter_stats[id].rbi

\* every pitcher record is still there and none of its counters is lower
PitcherRecordsKept ==
    \A id \in DOMAIN pitcher_stats :
        /\ id \in DOMAIN pitcher_stats'
        /\ pitcher_stats'[id].ip >= pitcher_stats[id].ip
        /\ pitcher_stats'[id].h >= pitcher_stats[id].h
        /\ pitcher_stats'[id].er >= pitcher_stats[id].er
        /\ pitcher_stats'[id].so >= pitcher_stats[id].so

\* main calls simulate_game
EntersSession == pc = "select" /\ pc' = "fetch"

\* the operator chose to watch another game
WatchesAnother == pc = "ask" /\ pc' = "select"

SessionStep ==
    /\ EntersSession =>
          /\ last_play_id' = 0
          /\ batter_stats' = EmptyDict
          /\ pitcher_stats' = EmptyDict
    /\ pc \in TryPcs => (BatterRecordsKept /\ PitcherRecordsKept)
    /\ ~WatchesAnother =>
          /\ last_play_id' >= last_play_id
          /\ BatterRecordsKept
          /\ PitcherRecordsKept

\* C20: every entry into simulate_game starts with the cursor at 0 and
\* both stat maps empty; within a session no batter or pitcher record is
\* removed and no counter decreases; the cursor and the maps are reset
\* only by the step on which the operator chooses to watch another game.
C20_SessionsStartClean == [][SessionStep]_vars

\* the operator has chosen to watch another game after a session whose
\* printed statistics were not empty: the cursor and both maps are back
\* at their initial values when simulate_game is entered again
W_C20_ResetAfterPlayedSession ==
    /\ pc = "select"
    /\ printed.shown
    /\ printed.batters # EmptyDict
    /\ printed.pitchers # EmptyDict
    /\ last_play_id = 0
    /\ batter_stats = EmptyDict
    /\ pitcher_stats = EmptyDict

\* ------------------------------------------------------------------
\* listing the games (src/live_games.py 85-104, 269-278)
\* ------------------------------------------------------------------

\* C21: when the schedule request fails with a transport error the
\* listing returns an empty sequence instead of raising, and the caller
\* proceeds as with no games available (main prints "Exiting" and ends
\* normally).
C21_ListingFailsSoft == error = "schedule" => pc = "exit"

\* ------------------------------------------------------------------
\* print_stats (src/live_games.py 257-267), called alone
\* ------------------------------------------------------------------

\* the innings-pitched values of the records print_stats is called on
IpValues == {0, 1, 7, 8}

\* the stat maps print_stats is called on
BatterTables ==
    UNION {{[b \in D |-> [name |-> b, ab |-> g[b][1], h |-> g[b][2],
                          hr |-> 0, rbi |-> 0]] :
              g \in [D -> {x \in (0..MaxAtBats) \X (0..MaxAtBats) :
                              x[2] <= x[1]}]} :
           D \in SUBSET Batters}

PitcherTables ==
    UNION {{[p \in D |-> [name |-> p, ip |-> g[p][1], h |-> g[p][2],
                          er |-> g[p][2], so |-> 0]] :
              g \in [D -> IpValues \X (0..MaxEarned)]} :
           D \in SUBSET Pitchers}

PrintInit ==
    /\ pc = "call_print_stats"
    /\ error = "none"
    /\ exit_kind = "none"
    /\ feed = <<>>
    /\ current_plays = <<>>
    /\ game_status = "Live"
    /\ pending = <<>>
    /\ last_play_id = 0
    /\ current_runners = EmptyBases
    /\ batter_stats \in BatterTables
    /\ pitcher_stats \in PitcherTables
    /\ printed = NothingPrinted
    /\ final_emitted = FALSE
    /\ tick_cursor = -1
    /\ prev_len = -1
    /\ trace = <<>>
    /\ arg_play = DefaultPlay
    /\ prior_runners = EmptyBases
    /\ processed = <<>>
    /\ commentary = NoCommentary
    /\ diamond = NoDiamond
    /\ attempts = <<>>
    /\ game_data = NoGameData

\* self.print_stats()
CallPrintStats ==
    /\ pc = "call_print_stats"
    /\ LET r == print_stats(batter_stats, pitcher_stats)
       IN /\ printed' = r.shown
          /\ error' = IF r.raised THEN "zero_division" ELSE error
    /\ pc' = "print_stats_done"
    /\ UNCHANGED <<exit_kind, feed, current_plays, game_status, pending,
                   last_play_id, current_runners, batter_stats,
                   pitcher_stats, final_emitted, tick_cursor, prev_len,
                   trace, arg_play, prior_runners, processed, commentary,
                   diamond, attempts, game_data>>

PrintNext == CallPrintStats

PrintSpec == PrintInit /\ [][PrintNext]_vars

\* the displayed ERA of pitcher p is er x 9 / d to the nearest hundredth
EraIsQuotient(p, d) ==
    LET e == printed.eras[p]
        n == pitcher_stats[p].er * 900
        diff == IF e * d >= n THEN e * d - n ELSE n - e * d
    IN 2 * diff <= d

PrintStatsDone == pc = "print_stats_done"

PrintStatsStep ==
    pc = "call_print_stats" => UNCHANGED <<batter_stats, pitcher_stats>>

\* C22: print_stats never faults on zero innings pitched: the ERA it shows
\* is earned-runs x 9 divided by innings-pitched, with divisor 1 when
\* innings-pitched is 0, and it leaves the stat records as they were, with
\* neither a batting average nor an ERA stored in them.
C22_EraDividesByOneOnZeroInnings ==
    /\ [](PrintStatsDone =>
            /\ error = "none"
            /\ printed.shown
            /\ DOMAIN printed.eras = DOMAIN pitcher_stats
            /\ \A p \in DOMAIN pitcher_stats :
                  /\ pitcher_stats[p].ip = 0 =>
                        printed.eras[p] = pitcher_stats[p].er * 900
                  /\ pitcher_stats[p].ip > 0 =>
                        EraIsQuotient(p, pitcher_stats[p].ip)
                  /\ DOMAIN pitcher_stats[p] = {"name", "ip", "h", "er", "so"}
            /\ \A b \in DOMAIN batter_stats :
                  DOMAIN batter_stats[b] = {"name", "ab", "h", "hr", "rbi"})
    /\ [][PrintStatsStep]_vars

W_C22_ZeroAndSevenInnings ==
    /\ PrintStatsDone
    /\ DOMAIN pitcher_stats = {3, 4}
    /\ DOMAIN batter_stats = {1}
    /\ pitcher_stats[3].ip = 0
    /\ pitcher_stats[3].er = 2
    /\ printed.eras[3] = 1800
    /\ pitcher_stats[4].ip = 7
    /\ pitcher_stats[4].er = 1
    /\ printed.eras[4] = 129
    /\ batter_stats[1].ab = 0
    /\ printed.avgs[1] = 0

\* ------------------------------------------------------------------
\* the box-score get_game_data (src/previous_test.py 48-65,
\* src/explained.py 59-84), called alone
\* ------------------------------------------------------------------

\* the endpoints list, in its order
Endpoints == <<"linescore", "boxscore", "diffPatch">>

OkStatus_below500(status) == status < 500

\* response.status_code == 200
OkStatus(status) == status = 200

\* what one requests.get can bring: a request error raised, or a response
\* with a status code and a body that response.json() can parse or not
RequestErrors == {"Timeout", "ConnectionError"}

Responses ==
    [raised : {"none"}, status : {200, 404, 500}, parses : BOOLEAN]

\* response.json() of the endpoint's answer
Payload(endpoint) == endpoint

\* the endpoint the for loop is at
CurrentEndpoint == Endpoints[Len(attempts) + 1]

\* where the for loop goes after an attempt that did not return
AfterAttempt(atts) ==
    IF Len(atts) < Len(Endpoints) THEN "try_endpoint"
    ELSE "get_game_data_done"

EndpointInit ==
    /\ pc = "try_endpoint"
    /\ error = "none"
    /\ exit_kind = "none"
    /\ feed = <<>>
    /\ current_plays = <<>>
    /\ game_status = "Live"
    /\ pending = <<>>
    /\ last_play_id = 0
    /\ current_runners = EmptyBases
    /\ batter_stats = EmptyDict
    /\ pitcher_stats = EmptyDict
    /\ printed = NothingPrinted
    /\ final_emitted = FALSE
    /\ tick_cursor = -1
    /\ prev_len = -1
    /\ trace = <<>>
    /\ arg_play = DefaultPlay
    /\ prior_runners = EmptyBases
    /\ processed = <<>>
    /\ commentary = NoCommentary
    /\ diamond = NoDiamond
    /\ attempts = <<>>
    /\ game_data = NoGameData

EndpointUnchanged ==
    UNCHANGED <<exit_kind, feed, current_plays, game_status, pending,
                last_play_id, current_runners, batter_stats, pitcher_stats,
                printed, final_emitted, tick_cursor, prev_len, trace,
                arg_play, prior_runners, processed, commentary, diamond>>

\* requests.get raises a RequestException: continue with the next endpoint
EndpointRaises ==
    /\ pc = "try_endpoint"
    /\ \E e \in RequestErrors :
         attempts' = Append(attempts,
                            [endpoint |-> CurrentEndpoint, raised |-> e,
                             status |-> 0, parses |-> FALSE])
    /\ pc' = AfterAttempt(attempts')
    /\ UNCHANGED <<error, game_data>>
    /\ EndpointUnchanged

\* the status is 200 and the body parses: return response.json()
EndpointReturns ==
    /\ pc = "try_endpoint"
    /\ \E r \in Responses :
         /\ OkStatus(r.status)
         /\ r.parses
         /\ attempts' = Append(attempts,
                               [endpoint |-> CurrentEndpoint,
                                raised |-> r.raised, status |-> r.status,
                                parses |-> r.parses])
    /\ game_data' = Payload(CurrentEndpoint)
    /\ pc' = "get_game_data_done"
    /\ UNCHANGED error
    /\ EndpointUnchanged

\* the status is 200 but response.json() raises, and the decode error of
\* the installed requests is a RequestException: continue
EndpointBodyRejected ==
    /\ pc = "try_endpoint"
    /\ \E r \in Responses :
         /\ OkStatus(r.status)
         /\ ~r.parses
         /\ attempts' = Append(attempts,
                               [endpoint |-> CurrentEndpoint,
                                raised |-> r.raised, status |-> r.status,
                                parses |-> r.parses])
    /\ pc' = AfterAttempt(attempts')
    /\ UNCHANGED <<error, game_data>>
    /\ EndpointUnchanged

\* the status is 200 but response.json() raises, and the decode error of
\* the installed requests is a plain ValueError: it leaves get_game_data
EndpointBodyRaises ==
    /\ pc = "try_endpoint"
    /\ \E r \in Responses :
         /\ OkStatus(r.status)
         /\ ~r.parses
         /\ attempts' = Append(attempts,
                               [endpoint |-> CurrentEndpoint,
                                raised |-> r.raised, status |-> r.status,
                                parses |-> r.parses])
    /\ pc' = "get_game_data_raised"
    /\ error' = "decode"
    /\ UNCHANGED game_data
    /\ EndpointUnchanged

\* any other status: on to time.sleep(0.5)
EndpointRefuses ==
    /\ pc = "try_endpoint"
    /\ \E r \in Responses :
         /\ ~OkStatus(r.status)
         /\ attempts' = Append(attempts,
                               [endpoint |-> CurrentEndpoint,
                                raised |-> r.raised, status |-> r.status,
                                parses |-> r.parses])
    /\ pc' = "endpoint_delay"
    /\ UNCHANGED <<error, game_data>>
    /\ EndpointUnchanged

\* time.sleep(0.5), then the next endpoint, or return None after the last
EndpointDelay ==
    /\ pc = "endpoint_delay"
    /\ pc' = AfterAttempt(attempts)
    /\ UNCHANGED <<error, attempts, game_data>>
    /\ EndpointUnchanged

EndpointNext ==
    \/ EndpointRaises
    \/ EndpointReturns
    \/ EndpointBodyRejected
    \/ EndpointBodyRaises
    \/ EndpointRefuses
    \/ EndpointDelay

EndpointSpec == EndpointInit /\ [][EndpointNext]_vars

\* the endpoints are contacted in the listed order, each at most once
ContactedInOrder ==
    /\ Len(attempts) <= Len(Endpoints)
    /\ \A k \in 1..Len(attempts) : attempts[k].endpoint = Endpoints[k]

GameDataDone == pc = "get_game_data_done"

\* C23 as stated: the endpoints are tried strictly in the listed order; the
\* payload of the first endpoint answering with status 200 is returned and
\* no later endpoint is contacted; None is returned if and only if every
\* endpoint raised a request error or answered with a non-200 status; no
\* request error reaches the caller.
C23_FirstOkEndpointWins ==
    /\ ContactedInOrder
    /\ \A k \in 1..Len(attempts) :
          attempts[k].status = 200 =>
              /\ k = Len(attempts)
              /\ GameDataDone
              /\ game_data = Payload(Endpoints[k])
    /\ GameDataDone =>
          ((game_data = NoGameData) <=>
              /\ Len(attempts) = Len(Endpoints)
              /\ \A k \in 1..Len(attempts) :
                    \/ attempts[k].raised \in RequestErrors
                    \/ attempts[k].status # 200)
    /\ error \notin RequestErrors

\* the attempt brought no payload: a request error, a non-200 status, or a
\* 200 whose body response.json() cannot parse
AttemptFailed(a) ==
    \/ a.raised \in RequestErrors
    \/ a.status # 200
    \/ ~a.parses

\* C23 as amended: the endpoints are tried strictly in the listed order;
\* the payload of the first endpoint answering with status 200 and a body
\* that parses is returned and no later endpoint is contacted; a 200 whose
\* body does not parse either counts as a failed endpoint or lets the
\* decode error (not a request error) leave get_game_data; None is
\* returned if and only if all three endpoints failed; no request error
\* reaches the caller.
C23_FirstParsedOkEndpointWins ==
    /\ ContactedInOrder
    /\ \A k \in 1..Len(attempts) :
          ~AttemptFailed(attempts[k]) =>
              /\ k = Len(attempts)
              /\ GameDataDone
              /\ game_data = Payload(Endpoints[k])
    /\ GameDataDone =>
          /\ (game_data = NoGameData) <=>
                /\ Len(attempts) = Len(Endpoints)
                /\ \A k \in 1..Len(attempts) : AttemptFailed(attempts[k])
          /\ game_data # NoGameData =>
                \A k \in 1..(Len(attempts) - 1) : AttemptFailed(attempts[k])
    /\ error \notin RequestErrors
    /\ pc = "get_game_data_raised" =>
          /\ error = "decode"
          /\ attempts[Len(attempts)].status = 200
          /\ ~attempts[Len(attempts)].parses
          /\ game_data = NoGameData

W_C23_ThirdEndpointAnswers ==
    /\ GameDataDone
    /\ Len(attempts) = 3
    /\ attempts[1].raised = "Timeout"
    /\ attempts[2].status = 200
    /\ ~attempts[2].parses
    /\ attempts[3].status = 200
    /\ attempts[3].parses
    /\ game_data = "diffPatch"

\* ------------------------------------------------------------------
\* the Poll Cursor and the plays processed (src/test.py 151-186,
\* src/live_games.py 192-214)
\* ------------------------------------------------------------------

\* simulate_game is suspended in the inter-poll sleep, or has left its loop
\* because the game is over
BetweenPollsOrFinished ==
    \/ pc = "sleep"
    \/ pc = "print_stats" /\ exit_kind = "final"

\* inside the loop the cursor changes only at the assignment after the for
\* loop, when no play of the batch is left, and becomes the snapshot length
BatchAdvanceStep ==
    (pc \in TryPcs /\ last_play_id' # last_play_id) =>
        /\ pc = "advance_cursor"
        /\ pending = <<>>
        /\ last_play_id' = Len(current_plays)
        /\ last_play_id' = Len(processed)

\* C24: at every inter-poll sleep and at normal termination of
\* simulate_game (no cancellation, no exception) the Poll Cursor equals the
\* number of plays update_stats has been applied to since the session
\* started; the cursor is advanced only after the whole batch of new plays
\* has been processed, never per play.
C24_CursorCountsProcessedPlays ==
    /\ [](BetweenPollsOrFinished => last_play_id = Len(processed))
    /\ [][BatchAdvanceStep]_vars

\* a second batch has been processed and the loop sleeps again
W_C24_SecondBatchCounted ==
    /\ pc = "sleep"
    /\ tick_cursor = 1
    /\ Len(processed) = 2
    /\ last_play_id = 2

\* ------------------------------------------------------------------
\* totals over the stat maps (src/live_games.py 240-255)
\* ------------------------------------------------------------------

\* the sum of the values of a function with a finite domain
RECURSIVE SumOf(_)
SumOf(f) ==
    IF DOMAIN f = {} THEN 0
    ELSE LET x == CHOOSE y \in DOMAIN f : TRUE
         IN f[x] + SumOf([y \in (DOMAIN f) \ {x} |-> f[y]])

BatterHitsTotal == SumOf([b \in DOMAIN batter_stats |-> batter_stats[b].h])

BatterHomeRunsTotal ==
    SumOf([b \in DOMAIN batter_stats |-> batter_stats[b].hr])

PitcherHitsTotal ==
    SumOf([p \in DOMAIN pitcher_stats |-> pitcher_stats[p].h])

\* C25: after any sequence of update_stats calls the sum of hits over all
\* batter records equals the sum of hits allowed over all pitcher records,
\* and the sum of the batters' home runs does not exceed it.
C25_HitsBalance ==
    /\ BatterHitsTotal = PitcherHitsTotal
    /\ BatterHomeRunsTotal <= PitcherHitsTotal

W_C25_ThreeHitsTwoPitchers ==
    /\ Len(processed) = 3
    /\ DOMAIN batter_stats = {1, 2}
    /\ DOMAIN pitcher_stats = {3, 4}
    /\ batter_stats[1].h = 2
    /\ batter_stats[2].h = 1
    /\ pitcher_stats[3].h = 1
    /\ pitcher_stats[4].h = 2
    /\ BatterHomeRunsTotal = 1

\* ------------------------------------------------------------------
\* the order of the processed plays (src/live_games.py 230-255)
\* ------------------------------------------------------------------

\* update_stats applied to the plays of a sequence, one after the other,
\* starting from the maps bs and ps
RECURSIVE ApplyInOrder(_, _, _)
ApplyInOrder(bs, ps, plays) ==
    IF plays = <<>> THEN [batter_stats |-> bs, pitcher_stats |-> ps]
    ELSE LET r == update_stats(bs, ps, Head(plays), Head(plays).batter,
                               Head(plays).pitcher)
         IN ApplyInOrder(r.batter_stats, r.pitcher_stats, Tail(plays))

\* the same plays in every order
Reorderings(plays) ==
    {[i \in 1..Len(plays) |-> plays[f[i]]] :
        f \in Permutations(1..Len(plays))}

\* every call of update_stats made so far has returned
AllCallsReturned == pc = "call_update_stats"

\* C26: the batter and pitcher counters depend only on the multiset of
\* processed plays: update_stats applied to any permutation of the plays
\* processed gives the same records for every player id.
C26_OrderIndependent ==
    AllCallsReturned =>
        \A q \in Reorderings(processed) :
            ApplyInOrder(EmptyDict, EmptyDict, q)
               = [batter_stats |-> batter_stats,
                  pitcher_stats |-> pitcher_stats]

\* three different plays, the last one first creating the second batter
W_C26_MixedPlaysProcessed ==
    /\ AllCallsReturned
    /\ Len(processed) = 3
    /\ processed[1].eventType = "homerun"
    /\ processed[1].batter = 1
    /\ processed[2].eventType = "strikeout"
    /\ processed[2].batter = 1
    /\ processed[3].eventType = "single"
    /\ processed[3].batter = 2
    /\ processed[3].pitcher = 4
    /\ batter_stats[1].hr = 1
    /\ pitcher_stats[3].so = 1
    /\ batter_stats[2].h = 1

\* ------------------------------------------------------------------
\* the fields no operation writes (src/live_games.py 230-255, 264-267)
\* ------------------------------------------------------------------

\* C27: in every reachable state of a session all batter rbi fields and
\* all pitcher ip fields are 0, so the ERA print_stats shows is always
\* earned-runs times 9.
C27_RbiAndInningsStayZero ==
    /\ \A b \in DOMAIN batter_stats : batter_stats[b].rbi = 0
    /\ \A p \in DOMAIN pitcher_stats : pitcher_stats[p].ip = 0
    /\ printed.shown =>
          /\ DOMAIN printed.eras = DOMAIN printed.pitchers
          /\ \A p \in DOMAIN printed.eras :
                printed.eras[p] = printed.pitchers[p].er * 900

\* a homerun with two runs batted in has been processed and the stats
\* printed: the batter's rbi is still 0 and the pitcher's ERA is 18.00
W_C27_HomerunWithRbiPrinted ==
    /\ pc = "ask"
    /\ Len(processed) = 1
    /\ processed[1].eventType = "homerun"
    /\ processed[1].rbi = 2
    /\ batter_stats[2].rbi = 0
    /\ pitcher_stats[4].er = 2
    /\ pitcher_stats[4].ip = 0
    /\ printed.eras[4] = 1800

====
